---- MODULE Spec2Model ----
(***************************************************************************)
(* Symbol/expression core of loki (src/loki/expression/symbol_types.py):   *)
(* Scalar / Array nodes bound to a scope's type table, the Variable        *)
(* factory and the derived-type member expansion.                          *)
(*                                                                         *)
(* Python objects with identity (SymbolType, OrderedDict, nodes) live in   *)
(* heaps indexed by 1..Len; 0 stands for None.  A name is the sequence of  *)
(* its '%'-separated parts: "a%x" is <<"a", "x">>.                         *)
(***************************************************************************)
EXTENDS Integers, Sequences, FiniteSets, TLC

\* ------------------------------------------------------------------ bounds
MaxOps == 3          \* operations per behaviour
MaxCtor == 2         \* of which calls that build nodes (Variable, clone)
MaxDepth == 3        \* nesting of Variable <-> member expansion

\* ------------------------------------------------------------- the scopes
Scopes == {1, 2, 3}
TypeDefScope == 1    \* scope of the derived-type definition
ModuleScope == 2     \* an enclosing program unit
RoutineScope == 3    \* a program unit enclosed by ModuleScope

ScopeParent(s) == IF s = RoutineScope THEN ModuleScope ELSE 0

Names == {<<"a">>}

NoDims == [kind |-> "None", index |-> 0]
DimInputs == {NoDims, [kind |-> "tuple", index |-> 1],
              [kind |-> "ArraySubscript", index |-> 1]}

VARIABLES types, dicts, nodes, table, alive, ops, ctors, lastOp, lit, metadata, fix

vars == <<types, dicts, nodes, table, alive, ops, ctors, lastOp, lit, metadata, fix>>

\* ---------------------------------------------------------- type objects
SymbolType(dtype) ==
    [dtype |-> dtype, kind |-> "None", shape |-> "None", parent |-> 0, variables |-> 0]

\* a test for a missing shape only
ShapeIsNone(shape) == shape = "None"

\* `not shape`: None and the empty tuple are falsy
ShapeFalsy(shape) == shape \in {"None", "()"}

\* ------------------------------------------------------------ scope table
\* The scope is an ordered name -> type table with an optional enclosing
\* scope.  Scopes compare by identity and count as true while alive.  lookup
\* searches the own table first and, when recursive, the enclosing scopes;
\* called with one argument, as the nodes and the factory do, it is recursive:
\* Scalar.__init__ relies on it to find "variables inherited from a parent
\* scope".
TableGet(tab, name) ==
    LET I == {i \in 1..Len(tab) : tab[i].name = name}
    IN  IF I = {} THEN 0 ELSE tab[CHOOSE i \in I : TRUE].type

TablePut(tab, name, t) ==
    IF \E i \in 1..Len(tab) : tab[i].name = name
    THEN [i \in 1..Len(tab) |-> IF tab[i].name = name THEN [name |-> name, type |-> t] ELSE tab[i]]
    ELSE Append(tab, [name |-> name, type |-> t])

DefaultRecursive == TRUE

RECURSIVE lookup(_, _, _, _)
lookup(H, s, name, recursive) ==
    LET own == TableGet(H.table[s], name)
        p == ScopeParent(s)
    IN  IF own # 0 THEN own
        ELSE IF recursive /\ p # 0 /\ H.alive[p] THEN lookup(H, p, name, recursive)
        ELSE 0

setitem(H, s, name, t) == [H EXCEPT !.table[s] = TablePut(@, name, t)]

setdefault(H, s, name, rec) ==
    IF TableGet(H.table[s], name) # 0 THEN H
    ELSE [H EXCEPT !.types = Append(@, rec),
                   !.table[s] = TablePut(@, name, Len(H.types) + 1)]

\* SymbolType.clone(): a new object with the same fields (shallow)
clone_type(H, t, rec) == [H EXCEPT !.types = Append(@, rec), !.ret = Len(H.types) + 1]

\* ------------------------------------------------------------------ nodes
\* a node that keeps its scope whatever became of it
scope_strong(H, n) == H.nodes[n].scope

\* weakref: the scope a node sees is None once the scope is gone
scope(H, n) == IF H.alive[H.nodes[n].scope] THEN H.nodes[n].scope ELSE 0

\* a basename that keeps the qualifier
basename_qualified(name) == name

basename(name) == <<name[Len(name)]>>

\* type getter: self.scope.lookup(self.name)
type(H, n) == lookup(H, H.nodes[n].scope, H.nodes[n].name, DefaultRecursive)

\* a setter that files the type under the last part of the name only
set_type_basename(H, n, t) ==
    IF scope(H, n) = 0 THEN [H EXCEPT !.err = "TypeError"]
    ELSE setitem(H, H.nodes[n].scope, basename(H.nodes[n].name), t)

\* type setter: self.scope[self.name] = value
set_type(H, n, t) ==
    IF scope(H, n) = 0 THEN [H EXCEPT !.err = "TypeError"]
    ELSE setitem(H, H.nodes[n].scope, H.nodes[n].name, t)

ArraySubscript(dimensions) ==
    IF dimensions.kind = "tuple"
    THEN [kind |-> "ArraySubscript", index |-> dimensions.index]
    ELSE dimensions

\* a constructor that keeps the entry a name already has
InitNodeFirstWins(H, node, t) ==
    LET id == Len(H.nodes) + 1
        H1 == [H EXCEPT !.nodes = Append(@, node), !.ret = id]
    IN  IF t = 0
        THEN [setdefault(H1, node.scope, node.name, SymbolType("DEFERRED")) EXCEPT !.ret = id]
        ELSE IF lookup(H1, node.scope, node.name, DefaultRecursive) = 0
        THEN [set_type(clone_type(H1, t, H1.types[t]), id, Len(H1.types) + 1)
                 EXCEPT !.ret = id]
        ELSE H1

\* a constructor that writes the placeholder over whatever is there
InitNodeOverwrite(H, node, t) ==
    LET id == Len(H.nodes) + 1
        H1 == [H EXCEPT !.nodes = Append(@, node), !.ret = id]
    IN  IF t = 0
        THEN [set_type(clone_type(H1, 0, SymbolType("DEFERRED")), id, Len(H1.types) + 1)
                 EXCEPT !.ret = id]
        ELSE IF t # lookup(H1, node.scope, node.name, DefaultRecursive)
        THEN [set_type(clone_type(H1, t, H1.types[t]), id, Len(H1.types) + 1)
                 EXCEPT !.ret = id]
        ELSE H1

\* a constructor that tests the type against the scope's own table only
InitNodeOwnLookup(H, node, t) ==
    LET id == Len(H.nodes) + 1
        H1 == [H EXCEPT !.nodes = Append(@, node), !.ret = id]
    IN  IF t = 0
        THEN [setdefault(H1, node.scope, node.name, SymbolType("DEFERRED")) EXCEPT !.ret = id]
        ELSE IF t # lookup(H1, node.scope, node.name, FALSE)
        THEN [set_type(clone_type(H1, t, H1.types[t]), id, Len(H1.types) + 1)
                 EXCEPT !.ret = id]
        ELSE H1

\* the part of __init__ shared by Scalar and Array: the node is entered in
\* the heap and the type argument is written to (or defaulted in) the table
InitNode(H, node, t) ==
    LET id == Len(H.nodes) + 1
        H1 == [H EXCEPT !.nodes = Append(@, node), !.ret = id]
    IN  IF t = 0
        THEN [setdefault(H1, node.scope, node.name, SymbolType("DEFERRED")) EXCEPT !.ret = id]
        ELSE IF t # lookup(H1, node.scope, node.name, DefaultRecursive)
        THEN [set_type(clone_type(H1, t, H1.types[t]), id, Len(H1.types) + 1)
                 EXCEPT !.ret = id]
        ELSE H1

Scalar(H, kw) ==
    InitNode(H, [variant |-> "Scalar", name |-> kw.name, scope |-> kw.scope,
                 dimensions |-> NoDims, parent |-> kw.parent, initial |-> kw.initial],
             kw.type)

Array(H, kw, dimensions) ==
    InitNode(H, [variant |-> "Array", name |-> kw.name, scope |-> kw.scope,
                 dimensions |-> ArraySubscript(dimensions), parent |-> kw.parent,
                 initial |-> kw.initial],
             kw.type)

\* __getinitargs__: (name, scope[, dimensions][, parent]); the parent is a
\* node and compares by its own arguments, so it is unfolded here
RECURSIVE getinitargs(_, _)
getinitargs(H, n) ==
    LET nd == H.nodes[n]
    IN  [variant |-> nd.variant, name |-> nd.name, scope |-> scope(H, n),
         dimensions |-> IF nd.variant = "Array" THEN nd.dimensions ELSE NoDims,
         parent |-> IF nd.parent # 0 THEN <<getinitargs(H, nd.parent)>> ELSE <<>>]

\* an equality that tells objects apart
NodeIs(H, n1, n2) == n1 = n2

\* Expression.__eq__: same class and same __getinitargs__()
NodeEq(H, n1, n2) == getinitargs(H, n1) = getinitargs(H, n2)

\* ------------------------------------------------------- Variable factory
\* a factory that insists on the name only
MissingName(kw) == ~kw.hasName

\* name = kwargs['name']; scope = kwargs['scope']
MissingKey(kw) == ~kw.hasName \/ ~kw.hasScope

\* a factory that consults only the scope's own table
EffectiveTypeOwn(H, kw) ==
    IF kw.hasType THEN kw.type ELSE lookup(H, kw.scope, kw.name, FALSE)

\* kwargs.setdefault('type', scope.lookup(name))
EffectiveType(H, kw) ==
    IF kw.hasType THEN kw.type ELSE lookup(H, kw.scope, kw.name, DefaultRecursive)

RECURSIVE Variable(_, _, _), instantiate_derived_type_variables(_, _, _), ExpandMembers(_, _, _, _, _)

\* kw: the keyword arguments [hasName, name, hasScope, scope, hasType, type,
\* dimensions, parent, initial]; fuel bounds the nesting of the factory
\* inside member expansion
Variable(H, kw, fuel) ==
    IF H.err # "" THEN H
    ELSE IF fuel = 0 THEN [H EXCEPT !.err = "RecursionError"]
    ELSE IF MissingKey(kw) THEN [H EXCEPT !.err = "KeyError", !.ret = 0]
    ELSE
    LET _type == EffectiveType(H, kw)
        shape == IF _type # 0 THEN H.types[_type].shape ELSE "None"
        kwargs == [kw EXCEPT !.type = _type]
        H1 == IF kw.dimensions = NoDims /\ ShapeFalsy(shape)
              THEN Scalar(H, kwargs)
              ELSE Array(H, kwargs, kw.dimensions)
    IN  instantiate_derived_type_variables(H1, H1.ret, fuel)

\* the loop `for k, v in variables.items()` from its i-th item on; size is
\* the length of the dictionary when the iteration began (a dictionary that
\* changes size while it is iterated raises)
ExpandMembers(H, obj, variables, i, fuel) ==
    IF H.err # "" \/ i > Len(H.dicts[variables]) THEN H
    ELSE
    LET k == H.dicts[variables][i].k
        v == H.dicts[variables][i].v
        vt == IF scope(H, v) = 0 THEN 0 ELSE type(H, v)
    IN  IF vt = 0 THEN [H EXCEPT !.err = "AttributeError"]
        ELSE
        LET size == Len(H.dicts[variables])
            H1 == clone_type(H, vt, [H.types[vt] EXCEPT !.parent = obj])
            vtype == H1.ret
            vname == H.nodes[obj].name \o basename(H.nodes[v].name)
            H2 == Variable(H1, [hasName |-> TRUE, name |-> vname,
                                hasScope |-> TRUE, scope |-> H.nodes[obj].scope,
                                hasType |-> TRUE, type |-> vtype, dimensions |-> NoDims,
                                parent |-> 0, initial |-> 0], fuel - 1)
            d == H2.types[type(H2, obj)].variables
            H3 == [H2 EXCEPT !.dicts[d] = Append(@, [k |-> k, v |-> H2.ret])]
        IN  IF H2.err # "" THEN H2
            ELSE IF Len(H3.dicts[variables]) # size
            THEN [H3 EXCEPT !.err = "RuntimeError"]
            ELSE ExpandMembers(H3, obj, variables, i + 1, fuel)

\* an expansion that fires whatever scope the members are bound to
NeedsExpansionAlways(H, obj) ==
    LET t == type(H, obj)
        variables == IF t = 0 THEN 0 ELSE H.types[t].variables
    IN  /\ t # 0
        /\ H.types[t].dtype = "DERIVED_TYPE"
        /\ variables # 0
        /\ H.dicts[variables] # <<>>

\* the two conditions that guard the expansion
NeedsExpansion(H, obj) ==
    LET t == type(H, obj)
        variables == IF t = 0 THEN 0 ELSE H.types[t].variables
    IN  /\ t # 0
        /\ H.types[t].dtype = "DERIVED_TYPE"
        /\ variables # 0
        /\ H.dicts[variables] # <<>>
        /\ scope(H, H.dicts[variables][1].v) # scope(H, obj)

\* an instance type that keeps the member map of the type it copies
SharedMapType(H, obj) ==
    LET t == type(H, obj)
    IN  set_type(clone_type(H, t, H.types[t]), obj, Len(H.types) + 1)

\* obj.type = obj.type.clone(variables=OrderedDict())
FreshMapType(H, obj) ==
    LET t == type(H, obj)
        newdict == Len(H.dicts) + 1
        H1 == [H EXCEPT !.dicts = Append(@, <<>>)]
        H2 == clone_type(H1, t, [H1.types[t] EXCEPT !.variables = newdict])
    IN  set_type(H2, obj, H2.ret)

instantiate_derived_type_variables(H, obj, fuel) ==
    IF H.err # "" THEN H
    ELSE IF scope(H, obj) = 0 THEN [H EXCEPT !.err = "AttributeError"]
    ELSE IF NeedsExpansion(H, obj)
    THEN LET variables == H.types[type(H, obj)].variables
         IN  [ExpandMembers(FreshMapType(H, obj), obj, variables, 1, fuel) EXCEPT !.ret = obj]
    ELSE [H EXCEPT !.ret = obj]

\* ================================================================ literals
\* Values handed to and stored by the literal classes.  A Python value is a
\* record [k, n, s]: k its native kind, n the number of an int or bool (a
\* float is held in tenths: 15 is 1.5), s the characters of a str (or, for a
\* list of the integers 0..9, the repr of each element).
None == [k |-> "None", n |-> 0, s |-> <<>>]
IntVal(n) == [k |-> "int", n |-> n, s |-> <<>>]
BoolVal(b) == [k |-> "bool", n |-> IF b THEN 1 ELSE 0, s |-> <<>>]
FloatVal(n) == [k |-> "float", n |-> n, s |-> <<>>]
Str(s) == [k |-> "str", n |-> 0, s |-> s]
ListVal(s) == [k |-> "list", n |-> 0, s |-> s]
ExprVal(s) == [k |-> "expr", n |-> 0, s |-> s]

\* `if x:` for the values in use
Truthy(v) ==
    CASE v.k = "None" -> FALSE
      [] v.k \in {"int", "bool", "float"} -> v.n # 0
      [] v.k \in {"str", "list"} -> v.s # <<>>
      [] OTHER -> TRUE

Digits == {"0", "1", "5"}

DigitVal(c) == CASE c = "0" -> 0 [] c = "1" -> 1 [] c = "5" -> 5 [] OTHER -> 0

DigitChar(d) ==
    CASE d = 0 -> "0" [] d = 1 -> "1" [] d = 2 -> "2" [] d = 3 -> "3" [] d = 4 -> "4"
      [] d = 5 -> "5" [] d = 6 -> "6" [] d = 7 -> "7" [] d = 8 -> "8" [] OTHER -> "9"

RECURSIVE DigitsVal(_), IntText(_)
DigitsVal(s) ==
    IF s = <<>> THEN 0
    ELSE 10 * DigitsVal(SubSeq(s, 1, Len(s) - 1)) + DigitVal(s[Len(s)])

\* str(n) of a natural number
IntText(n) == IF n < 10 THEN <<DigitChar(n)>> ELSE Append(IntText(n \div 10), DigitChar(n % 10))

IsNumeral(s) == s # <<>> /\ \A i \in 1..Len(s) : s[i] \in Digits

\* digits '.' digits, with a digit on one side at least
IsFloatText(s) ==
    /\ Cardinality({i \in 1..Len(s) : s[i] = "."}) = 1
    /\ Len(s) > 1
    /\ \A i \in 1..Len(s) : s[i] \in Digits \cup {"."}

\* float(s) in tenths, for texts whose value is a whole number of tenths
FloatOf(s) ==
    LET dot == CHOOSE i \in 1..Len(s) : s[i] = "."
    IN  10 * DigitsVal(SubSeq(s, 1, dot - 1))
          + (IF dot < Len(s) THEN DigitVal(s[dot + 1]) ELSE 0)

\* str(x) of a float held in tenths
FloatText(n) == IntText(n \div 10) \o <<".", DigitChar(n % 10)>>

LowerChar(c) ==
    CASE c = "T" -> "t" [] c = "R" -> "r" [] c = "U" -> "u" [] c = "E" -> "e"
      [] c = "F" -> "f" [] c = "A" -> "a" [] c = "L" -> "l" [] c = "S" -> "s"
      [] OTHER -> c

UpperChar(c) ==
    CASE c = "t" -> "T" [] c = "r" -> "R" [] c = "u" -> "U" [] c = "e" -> "E"
      [] c = "f" -> "F" [] c = "a" -> "A" [] c = "l" -> "L" [] c = "s" -> "S"
      [] OTHER -> c

\* str.lower()
lower(s) == [i \in 1..Len(s) |-> LowerChar(s[i])]

\* str(value)
str(v) ==
    CASE v.k = "str" -> v.s
      [] v.k = "int" -> IntText(v.n)
      [] v.k = "float" -> FloatText(v.n)
      [] v.k = "bool" -> IF v.n = 1 THEN <<"T", "r", "u", "e">> ELSE <<"F", "a", "l", "s", "e">>
      [] v.k = "None" -> <<"N", "o", "n", "e">>
      [] OTHER -> v.s

\* repr(c) of a character, of an element of a list of small integers
ReprChar(c) == IF c = "'" THEN <<"\"", c, "\"">> ELSE <<"'", c, "'">>

ReprItem(v, i) == IF v.k = "str" THEN ReprChar(v.s[i]) ELSE <<v.s[i]>>

\* ','.join(repr(c) for c in v) from the i-th item on
RECURSIVE JoinRepr(_, _)
JoinRepr(v, i) ==
    IF i > Len(v.s) THEN <<>>
    ELSE IF i = Len(v.s) THEN ReprItem(v, i)
    ELSE ReprItem(v, i) \o <<",">> \o JoinRepr(v, i + 1)

\* ---------------------------------------------------- expression nodes
\* An expression node: its class, the stored value (a literal's value, a
\* list's elements, a cast's function name), the kind attribute (None also
\* when the class has none) and the children (a range's bounds, a cast's
\* parameters).
Node(cls, value, kind, children) ==
    [cls |-> cls, value |-> value, kind |-> kind, children |-> children]

NoNode == Node("", None, None, <<>>)

Ok(node) == [err |-> "", node |-> node]
Raise(err) == [err |-> err, node |-> NoNode]

\* keyword arguments of a literal class: hasKind tells whether kind= is given
LitKw(hasKind, kind) == [hasKind |-> hasKind, kind |-> kind]
NoKw == LitKw(FALSE, None)

\* a FloatLiteral that stores the text of the number it parses
FloatLiteralNumeric(value, kw) ==
    IF value.k = "str" /\ ~IsFloatText(value.s) THEN Raise("ValueError")
    ELSE Ok(Node("FloatLiteral",
                 Str(IF value.k = "str" THEN FloatText(FloatOf(value.s)) ELSE str(value)),
                 kw.kind, <<>>))

\* FloatLiteral.__init__: self.value = str(value); self.kind = kwargs.pop('kind', None)
FloatLiteral(value, kw) == Ok(Node("FloatLiteral", Str(str(value)), kw.kind, <<>>))

\* int(value)
IntOf(v) ==
    CASE v.k \in {"int", "bool"} -> [err |-> "", n |-> v.n]
      [] v.k = "float" -> [err |-> "", n |-> v.n \div 10]
      [] v.k = "str" -> IF IsNumeral(v.s) THEN [err |-> "", n |-> DigitsVal(v.s)]
                        ELSE [err |-> "ValueError", n |-> 0]
      [] OTHER -> [err |-> "TypeError", n |-> 0]

\* IntLiteral.__init__: self.value = int(value); self.kind = kwargs.pop('kind', None)
IntLiteral(value, kw) ==
    IF IntOf(value).err # "" THEN Raise(IntOf(value).err)
    ELSE Ok(Node("IntLiteral", IntVal(IntOf(value).n), kw.kind, <<>>))

TrueWords == { <<"t", "r", "u", "e">>, <<".", "t", "r", "u", "e", ".">> }
FalseWords == { <<"f", "a", "l", "s", "e">>, <<".", "f", "a", "l", "s", "e", ".">> }

\* LogicLiteral.__init__: value.lower() in ('true', '.true.'); the remaining
\* keywords go to the base classes, which take none
LogicLiteral(value, kw) ==
    IF value.k # "str" THEN Raise("AttributeError")
    ELSE IF kw.hasKind THEN Raise("TypeError")
    ELSE Ok(Node("LogicLiteral", BoolVal(lower(value.s) \in TrueWords), None, <<>>))

Quotes == {"\"", "'"}

\* StringLiteral.__init__: value[0] == value[-1] and value[0] in '"\'' strips
\* value[1:-1]; value[0] of the empty string raises
StringLiteral(value, kw) ==
    IF value.k # "str" THEN Raise("TypeError")
    ELSE IF value.s = <<>> THEN Raise("IndexError")
    ELSE IF kw.hasKind THEN Raise("TypeError")
    ELSE LET s == value.s
         IN  Ok(Node("StringLiteral",
                     Str(IF s[1] = s[Len(s)] /\ s[1] \in Quotes
                         THEN SubSeq(s, 2, Len(s) - 1) ELSE s),
                     None, <<>>))

\* LiteralList.__init__: self.elements = values
LiteralList(values) == Ok(Node("LiteralList", values, None, <<>>))

\* Cast.__init__: the kind is kept on the node, the function name and the
\* parameters (as_tuple(expression)) go to pmbl.Call
Cast(name, expression, kind) == Ok(Node("Cast", name, kind, expression))

\* a range that keeps its children as they are given
RangeAsGiven(cls, hasChildren, children) ==
    IF ~hasChildren THEN Raise("TypeError")
    ELSE IF Len(children) \notin {2, 3} THEN Raise("AssertionError")
    ELSE Ok(Node(cls, None, None, children))

\* Range.__init__(children): two or three children, a missing step is None;
\* the subclasses RangeIndex and LoopRange add nothing to it
Range(cls, hasChildren, children) ==
    IF ~hasChildren THEN Raise("TypeError")
    ELSE IF Len(children) \notin {2, 3} THEN Raise("AssertionError")
    ELSE Ok(Node(cls, None, None,
                 IF Len(children) = 2 THEN Append(children, None) ELSE children))

LiteralClasses == {"FloatLiteral", "IntLiteral", "LogicLiteral", "StringLiteral"}
RangeClasses == {"Range", "RangeIndex", "LoopRange"}

\* __getinitargs__ of the expression classes: the positional values, the
\* children tuple, and the ('kind', kind) pair when the kind is true
initargs(node) ==
    CASE node.cls \in {"FloatLiteral", "IntLiteral"} ->
            [value |-> <<node.value>>, children |-> <<>>,
             kind |-> IF Truthy(node.kind) THEN <<node.kind>> ELSE <<>>]
      [] node.cls \in {"LogicLiteral", "StringLiteral"} ->
            [value |-> <<node.value>>, children |-> <<>>, kind |-> <<>>]
      [] node.cls = "LiteralList" ->
            [value |-> <<Str(<<"[">> \o JoinRepr(node.value, 1) \o <<"]">>)>>,
             children |-> <<>>, kind |-> <<>>]
      [] node.cls = "Cast" ->
            [value |-> <<node.value>>, children |-> node.children, kind |-> <<>>]
      [] OTHER ->
            [value |-> <<>>, children |-> node.children, kind |-> <<>>]

\* Expression.__eq__ for expression nodes: same class, same __getinitargs__()
ExprEq(a, b) == a.cls = b.cls /\ initargs(a) = initargs(b)

\* the node's class called with the node's __getinitargs__(), a (key, value)
\* pair passed as that keyword
Rebuild(node) ==
    LET ia == initargs(node)
        kw == IF ia.kind = <<>> THEN NoKw ELSE LitKw(TRUE, ia.kind[1])
    IN  CASE node.cls = "FloatLiteral" -> FloatLiteral(ia.value[1], kw)
          [] node.cls = "IntLiteral" -> IntLiteral(ia.value[1], kw)
          [] node.cls = "LogicLiteral" -> LogicLiteral(ia.value[1], kw)
          [] node.cls = "StringLiteral" -> StringLiteral(ia.value[1], kw)
          [] node.cls = "LiteralList" -> LiteralList(ia.value[1])
          [] node.cls = "Cast" -> Cast(ia.value[1], ia.children, None)
          [] node.cls \in RangeClasses -> Range(node.cls, TRUE, ia.children)
          [] OTHER -> Ok(node)

\* --------------------------------------------------------- Literal factory
LogicWords == TrueWords \cup FalseWords

\* a classification that reads the text of a numeral as an integer
NativeTypeNumeral(value) ==
    CASE value.k \in {"int", "bool"} -> "INTEGER"
      [] value.k = "float" -> "REAL"
      [] value.k = "str" -> IF IsNumeral(value.s) THEN "INTEGER"
                            ELSE IF lower(value.s) \in LogicWords THEN "LOGICAL"
                            ELSE "CHARACTER"
      [] OTHER -> "None"

\* the isinstance chain of _from_literal (a bool is an int)
NativeType(value) ==
    CASE value.k \in {"int", "bool"} -> "INTEGER"
      [] value.k = "float" -> "REAL"
      [] value.k = "str" -> IF lower(value.s) \in LogicWords THEN "LOGICAL"
                            ELSE "CHARACTER"
      [] OTHER -> "None"

\* Literal._from_literal: cls_map[_type](value, **kwargs)
from_literal(value, tag, kw) ==
    LET _type == IF tag = "None" THEN NativeType(value) ELSE tag
    IN  CASE _type = "INTEGER" -> IntLiteral(value, kw)
          [] _type = "REAL" -> FloatLiteral(value, kw)
          [] _type = "LOGICAL" -> LogicLiteral(value, kw)
          [] _type = "CHARACTER" -> StringLiteral(value, kw)
          [] OTHER -> Raise("KeyError")

Letters == {"a", "t", "r", "u", "e", "f", "l", "s", "T", "R", "U", "E", "F", "A", "L", "S"}

\* pymbolic's parse: the text of a number gives the number, a name gives an
\* expression, anything else fails; a value that is not text fails
parse(value) ==
    IF value.k # "str" THEN [err |-> "TypeError", val |-> None]
    ELSE IF IsNumeral(value.s) THEN [err |-> "", val |-> IntVal(DigitsVal(value.s))]
    ELSE IF IsFloatText(value.s) THEN [err |-> "", val |-> FloatVal(FloatOf(value.s))]
    ELSE IF value.s # <<>> /\ \A i \in 1..Len(value.s) : value.s[i] \in Letters
    THEN [err |-> "", val |-> ExprVal(value.s)]
    ELSE [err |-> "ParseError", val |-> None]

\* if hasattr(obj, 'kind'): obj.kind = kwargs.get('kind', None)
AttachKind(r, kw) ==
    IF r.err = "" /\ r.node.cls \in {"FloatLiteral", "IntLiteral"}
    THEN Ok([r.node EXCEPT !.kind = kw.kind])
    ELSE r

\* a factory that returns what the parser gives as it is
LiteralNoRewrap(value, tag, kw) ==
    LET r == from_literal(value, tag, kw)
        p == parse(value)
    IN  IF r.err # "KeyError" THEN AttachKind(r, kw)
        ELSE IF p.err # "" THEN Raise(p.err)
        ELSE Ok(Node("Expression", p.val, None, <<>>))

\* Literal.__new__
Literal(value, tag, kw) ==
    LET r == from_literal(value, tag, kw)
        p == parse(value)
    IN  IF r.err # "KeyError" THEN AttachKind(r, kw)
        ELSE IF p.err # "" THEN Raise(p.err)
        ELSE IF p.val.k # "expr" THEN AttachKind(from_literal(p.val, tag, kw), kw)
        ELSE Ok(Node("Expression", p.val, None, <<>>))

\* ------------------------------------------------ building expressions
MaxLen == 3          \* length of the texts over Alphabet
MaxRebuild == 2      \* rebuilds of one node from its reconstruction arguments

Alphabet == {"'", "\"", "a", "5"}

ShortTexts == UNION {[1..n -> Alphabet] : n \in 0..MaxLen}

CaseVariants(w) ==
    {[i \in 1..Len(w) |-> IF i \in U THEN UpperChar(w[i]) ELSE w[i]] : U \in SUBSET (1..Len(w))}

WordTexts ==
    UNION {CaseVariants(w) : w \in LogicWords}
       \cup { <<"t", "r", "u", "e", "s">>, <<".", "t", "r", "u", "e">>,
              <<"'", "a", "\"", "a", "'">>, <<"'", "a", "'", "a", "'">> }

FloatTexts == { <<"1", ".", "0">>, <<"1", ".", "0", "0">>, <<"1", ".", "5">>,
                <<"0", ".", "5", "0">>, <<"1", ".">>, <<"1", "5">> }

Texts == ShortTexts \cup WordTexts \cup FloatTexts

RawValues ==
    {Str(s) : s \in Texts}
       \cup {None, IntVal(0), IntVal(5), BoolVal(TRUE), FloatVal(10), FloatVal(15),
             ExprVal(<<"a">>)}

\* type tags: the four that name a literal class, two that name none
Tags == {"None", "INTEGER", "REAL", "LOGICAL", "CHARACTER", "DERIVED_TYPE", "DEFERRED"}

KwInputs == {NoKw, LitKw(TRUE, Str(<<"j", "p", "r", "b">>))}

Bounds == {None, IntVal(1), IntVal(5)}

ChildInputs == UNION {[1..n -> Bounds] : n \in 0..4}

NoLit == [op |-> "init", value |-> None, tag |-> "None", kw |-> NoKw,
          hasChildren |-> FALSE, children |-> <<>>, res |-> Ok(NoNode),
          first |-> NoNode, prev |-> NoNode, rebuilds |-> 0]


\* ---------------------------------------------------------- metadata
\* ExprMetadataMixin: every node carries a dictionary, {'source': ...} when
\* built.  metadata holds the dictionaries of the nodes that were given one
\* (the frontend's nodes carry their source span); a node built without
\* source= has {'source': None}.
get_metadata(md, n) == IF n \in DOMAIN md THEN md[n] ELSE [source |-> "None"]

\* an update that puts the new dictionary in place of the old one
update_metadata_replace(md, n, data) ==
    [m \in DOMAIN md \cup {n} |-> IF m = n THEN data ELSE md[m]]

\* update_metadata: self._metadata.update(data)
update_metadata(md, n, data) ==
    LET old == get_metadata(md, n)
        new == [k \in DOMAIN old \cup DOMAIN data |->
                   IF k \in DOMAIN data THEN data[k] ELSE old[k]]
    IN  [m \in DOMAIN md \cup {n} |-> IF m = n THEN new ELSE md[m]]

\* source property
source(md, n) == get_metadata(md, n).source

NoFix == [reports |-> <<>>, mapper |-> <<>>]

\* mapper[key] = value in a dictionary whose keys compare structurally: an
\* equal key keeps its place and its key object and gets the new value
MapperPut(H, mapper, key, value) ==
    IF \E i \in 1..Len(mapper) : NodeEq(H, mapper[i].key, key)
    THEN [i \in 1..Len(mapper) |->
             IF NodeEq(H, mapper[i].key, key) THEN [key |-> mapper[i].key, value |-> value]
             ELSE mapper[i]]
    ELSE Append(mapper, [key |-> key, value |-> value])

\* mapper[key]
MapperGet(H, mapper, key) ==
    LET I == {i \in 1..Len(mapper) : NodeEq(H, mapper[i].key, key)}
    IN  IF I = {} THEN 0 ELSE mapper[CHOOSE i \in I : TRUE].value

\* Fortran90OperatorsRule.fix_subroutine from its i-th report on: the
\* location's source is invalidated and the location mapped to itself
RECURSIVE fix_subroutine(_, _, _, _)
fix_subroutine(H, F, reports, i) ==
    IF i > Len(reports) THEN F
    ELSE LET new_expr == reports[i]
         IN  fix_subroutine(H,
                 [md |-> update_metadata(F.md, new_expr, [source |-> "None"]),
                  mapper |-> MapperPut(H, F.mapper, reports[i], new_expr)],
                 reports, i + 1)

\* ----------------------------------------------------------- the program
Heap == [types |-> types, dicts |-> dicts, nodes |-> nodes, table |-> table,
         alive |-> alive, err |-> "", ret |-> 0]

Commit(H) ==
    /\ types' = H.types
    /\ dicts' = H.dicts
    /\ nodes' = H.nodes
    /\ table' = H.table
    /\ alive' = H.alive

NoOp == [op |-> "init", name |-> <<>>, scope |-> 0, hasType |-> FALSE, type |-> 0,
         dimensions |-> NoDims, node |-> 0, ret |-> 0, err |-> "",
         preOwn |-> 0, preAny |-> 0]

\* The derived-type definition as the frontend leaves it: members x and y
\* declared in TypeDefScope, the type descriptor holding them (types[3]), and
\* two plain descriptors of declarations (types[4], types[5]).
Init ==
    /\ types = << [SymbolType("REAL") EXCEPT !.kind = "jprb"],
                  [SymbolType("INTEGER") EXCEPT !.shape = "(n)"],
                  [SymbolType("DERIVED_TYPE") EXCEPT !.variables = 1],
                  [SymbolType("INTEGER") EXCEPT !.shape = "()"],
                  [SymbolType("REAL") EXCEPT !.kind = "jprb", !.shape = "(n)"] >>
    /\ dicts = << << [k |-> "x", v |-> 1], [k |-> "y", v |-> 2] >> >>
    /\ nodes = << [variant |-> "Scalar", name |-> <<"x">>, scope |-> TypeDefScope,
                   dimensions |-> NoDims, parent |-> 0, initial |-> 0],
                  [variant |-> "Array", name |-> <<"y">>, scope |-> TypeDefScope,
                   dimensions |-> NoDims, parent |-> 0, initial |-> 0] >>
    /\ table = [s \in Scopes |->
                  IF s = TypeDefScope
                  THEN << [name |-> <<"x">>, type |-> 1], [name |-> <<"y">>, type |-> 2] >>
                  ELSE << >>]
    /\ alive = [s \in Scopes |-> TRUE]
    /\ ops = 0
    /\ ctors = 0
    /\ lastOp = NoOp
    /\ lit = NoLit
    /\ metadata = << [source |-> "span"], [source |-> "span"] >>
    /\ fix = NoFix

\* the keyword arguments of a factory call that names both name and scope
Kwargs(name, s, hasType, t, dimensions, parent, initial) ==
    [hasName |-> TRUE, name |-> name, hasScope |-> TRUE, scope |-> s,
     hasType |-> hasType, type |-> t, dimensions |-> dimensions,
     parent |-> parent, initial |-> initial]

\* the operation returns: the heap it leaves becomes the state, and lastOp
\* records the call, its result and what the tables held for the name before
\* (preOwn: the scope's own entry, preAny: the recursive lookup)
Done(H, op, kw, n) ==
    /\ Commit(H)
    /\ lastOp' = [op |-> op, name |-> kw.name, scope |-> kw.scope,
                  hasType |-> kw.hasType, type |-> kw.type,
                  dimensions |-> kw.dimensions, node |-> n, ret |-> H.ret, err |-> H.err,
                  preOwn |-> IF kw.scope = 0 THEN 0 ELSE TableGet(table[kw.scope], kw.name),
                  preAny |-> IF kw.scope = 0 THEN 0 ELSE lookup(Heap, kw.scope, kw.name, TRUE)]
    /\ ops' = ops + 1
    /\ UNCHANGED <<lit, metadata, fix>>

\* descriptors a caller can hand to the factory: those of the declarations
\* (types[3..5]) and the entries the tables hold for the names in use
FrontendTypes == {3, 4, 5}
TableTypes == {TableGet(table[s], name) : s \in Scopes, name \in Names} \ {0}

\* Variable(name=..., scope=..., [type=...], [dimensions=...])
VariableCall ==
    /\ ops < MaxOps /\ ctors < MaxCtor
    /\ \E name \in Names, s \in Scopes, hasType \in BOOLEAN,
          t \in {0} \cup FrontendTypes \cup TableTypes, dimensions \in DimInputs :
        /\ alive[s]
        /\ hasType \/ t = 0
        /\ dimensions # NoDims => ~hasType
        /\ LET kw == Kwargs(name, s, hasType, t, dimensions, 0, 0)
           IN  Done(Variable(Heap, kw, MaxDepth), "Variable", kw, 0)
    /\ ctors' = ctors + 1

\* Variable(name='<parent>%x', scope=..., parent=..., initial=...)
VariableWithParent ==
    /\ ops < MaxOps /\ ctors < MaxCtor
    /\ \E parent \in 1..Len(nodes), initial \in {1} :
        /\ alive[nodes[parent].scope]
        /\ LET kw == Kwargs(nodes[parent].name \o <<"x">>, nodes[parent].scope,
                            FALSE, 0, NoDims, parent, initial)
           IN  Done(Variable(Heap, kw, MaxDepth), "VariableWithParent", kw, 0)
    /\ ctors' = ctors + 1

\* Variable(...) called without name= or without scope=
VariableMissing ==
    /\ ops < MaxOps
    /\ \E name \in Names, hasName \in BOOLEAN, hasScope \in BOOLEAN :
        /\ alive[RoutineScope]
        /\ hasName # hasScope
        /\ LET kw == [Kwargs(name, RoutineScope, TRUE, 4, NoDims, 0, 0)
                         EXCEPT !.hasName = hasName, !.hasScope = hasScope]
           IN  Done(Variable(Heap, kw, MaxDepth), "VariableMissing", kw, 0)
    /\ UNCHANGED ctors

\* a clone that forgets the parent
CloneKwargsNoParent(H, n) ==
    LET nd == H.nodes[n]
        t == type(H, n)
    IN  [hasName |-> nd.name # <<>>, name |-> nd.name,
         hasScope |-> scope(H, n) # 0, scope |-> scope(H, n),
         hasType |-> t # 0, type |-> t,
         dimensions |-> IF nd.variant = "Array" THEN nd.dimensions ELSE NoDims,
         parent |-> 0, initial |-> nd.initial]

\* the keyword arguments clone() collects from the node (no overrides)
CloneKwargs(H, n) ==
    LET nd == H.nodes[n]
        t == type(H, n)
    IN  [hasName |-> nd.name # <<>>, name |-> nd.name,
         hasScope |-> scope(H, n) # 0, scope |-> scope(H, n),
         hasType |-> t # 0, type |-> t,
         dimensions |-> IF nd.variant = "Array" THEN nd.dimensions ELSE NoDims,
         parent |-> nd.parent, initial |-> nd.initial]

clone(H, n, fuel) ==
    IF scope(H, n) = 0 THEN [H EXCEPT !.err = "AttributeError"]
    ELSE Variable(H, CloneKwargs(H, n), fuel)

\* v.clone()
Clone ==
    /\ ops < MaxOps /\ ctors < MaxCtor
    /\ \E n \in 1..Len(nodes) :
        Done(clone(Heap, n, MaxDepth), "clone", [CloneKwargs(Heap, n) EXCEPT
                 !.name = nodes[n].name, !.scope = nodes[n].scope], n)
    /\ ctors' = ctors + 1

\* v.type = t
SetType ==
    /\ ops < MaxOps
    /\ \E n \in 1..Len(nodes), t \in FrontendTypes :
        Done(set_type(Heap, n, t), "set_type",
             Kwargs(nodes[n].name, nodes[n].scope, TRUE, t, NoDims, 0, 0), n)
    /\ UNCHANGED ctors

\* dimensions setter: self._dimensions = value
set_dimensions(H, n, value) == [H EXCEPT !.nodes[n].dimensions = value]

\* v.dimensions = value
SetDimensions ==
    /\ ops < MaxOps
    /\ \E n \in 1..Len(nodes), value \in DimInputs :
        /\ nodes[n].variant = "Array"
        /\ Done(set_dimensions(Heap, n, value), "set_dimensions",
                Kwargs(nodes[n].name, nodes[n].scope, FALSE, 0, value, 0, 0), n)
    /\ UNCHANGED ctors

\* Variable.instantiate_derived_type_variables(v)
Instantiate ==
    /\ ops < MaxOps
    /\ \E n \in 1..Len(nodes) :
        Done(instantiate_derived_type_variables(Heap, n, MaxDepth), "instantiate",
             Kwargs(nodes[n].name, nodes[n].scope, FALSE, 0, NoDims, 0, 0), n)
    /\ UNCHANGED ctors

\* the owner of a scope releases it: weak references to it are cleared
Discard ==
    /\ ops < MaxOps
    /\ \E s \in Scopes :
        /\ alive[s]
        /\ Done([Heap EXCEPT !.alive[s] = FALSE], "discard",
                Kwargs(<<>>, s, FALSE, 0, NoDims, 0, 0), 0)
    /\ UNCHANGED ctors

Next ==
    \/ VariableCall
    \/ VariableWithParent
    \/ VariableMissing
    \/ Clone
    \/ SetType
    \/ SetDimensions
    \/ Instantiate
    \/ Discard

Spec == Init /\ [][Next]_vars

\* one expression is built per behaviour, then rebuilt from its arguments
Built1(op, value, tag, kw, hasChildren, children, res) ==
    /\ lit' = [op |-> op, value |-> value, tag |-> tag, kw |-> kw,
               hasChildren |-> hasChildren, children |-> children, res |-> res,
               first |-> res.node, prev |-> NoNode, rebuilds |-> 0]
    /\ UNCHANGED <<types, dicts, nodes, table, alive, ops, ctors, lastOp, metadata, fix>>

\* Literal(value, [type=tag], [kind=kind])
LiteralCall ==
    /\ lit.op = "init"
    /\ \E value \in RawValues, tag \in Tags, kw \in KwInputs :
        Built1("Literal", value, tag, kw, FALSE, <<>>, Literal(value, tag, kw))

\* FloatLiteral(value, [kind=kind])
FloatLiteralCall ==
    /\ lit.op = "init"
    /\ \E value \in RawValues, kw \in KwInputs :
        Built1("FloatLiteral", value, "None", kw, FALSE, <<>>, FloatLiteral(value, kw))

\* IntLiteral(value, [kind=kind])
IntLiteralCall ==
    /\ lit.op = "init"
    /\ \E value \in RawValues, kw \in KwInputs :
        Built1("IntLiteral", value, "None", kw, FALSE, <<>>, IntLiteral(value, kw))

\* LogicLiteral(value)
LogicLiteralCall ==
    /\ lit.op = "init"
    /\ \E value \in RawValues :
        Built1("LogicLiteral", value, "None", NoKw, FALSE, <<>>, LogicLiteral(value, NoKw))

\* StringLiteral(value)
StringLiteralCall ==
    /\ lit.op = "init"
    /\ \E value \in RawValues :
        Built1("StringLiteral", value, "None", NoKw, FALSE, <<>>, StringLiteral(value, NoKw))

\* LiteralList(values), values a tuple of up to two of the integers 1 and 5
LiteralListCall ==
    /\ lit.op = "init"
    /\ \E n \in 0..2 : \E s \in [1..n -> {"1", "5"}] :
        Built1("LiteralList", ListVal(s), "None", NoKw, FALSE, <<>>, LiteralList(ListVal(s)))

\* Cast(name, expression, [kind=kind])
CastCall ==
    /\ lit.op = "init"
    /\ \E expression \in {IntVal(1), Str(<<"a">>)}, kw \in KwInputs :
        Built1("Cast", Str(<<"r", "e", "a", "l">>), "None", kw, TRUE, <<expression>>,
               Cast(Str(<<"r", "e", "a", "l">>), <<expression>>, kw.kind))

\* Range(children), RangeIndex(children), LoopRange(children); without
\* hasChildren the call names the upper bound by keyword, as
\* RangeIndex(upper=5), and children holds that bound
RangeCall ==
    /\ lit.op = "init"
    /\ \E cls \in RangeClasses, hasChildren \in BOOLEAN, children \in ChildInputs :
        /\ hasChildren \/ Len(children) = 1
        /\ Built1(cls, None, "None", NoKw, hasChildren, children,
                  Range(cls, hasChildren, children))

\* the class of the node called with the node's reconstruction arguments
RebuildCall ==
    /\ lit.op # "init"
    /\ lit.res.err = ""
    /\ lit.rebuilds < MaxRebuild
    /\ lit' = [lit EXCEPT !.res = Rebuild(lit.res.node), !.prev = lit.res.node,
                          !.rebuilds = @ + 1]
    /\ UNCHANGED <<types, dicts, nodes, table, alive, ops, ctors, lastOp, metadata, fix>>

LitNext ==
    \/ LiteralCall
    \/ FloatLiteralCall
    \/ IntLiteralCall
    \/ LogicLiteralCall
    \/ StringLiteralCall
    \/ LiteralListCall
    \/ CastCall
    \/ RangeCall
    \/ RebuildCall

LitSpec == Init /\ [][LitNext]_vars

\* ------------------------------------------------------------ properties
\* the last operation was a successful factory call without type=
BuiltUntyped ==
    /\ lastOp.op \in {"Variable", "VariableWithParent"}
    /\ lastOp.err = ""
    /\ ~lastOp.hasType

OwnEntry(s, name) == lookup(Heap, s, name, FALSE)

\* C1 as stated: after v = Variable(name=n, scope=s) without a type, v.type
\* is the entry of s's own table, s.lookup(n, recursive=false), whether or
\* not an enclosing scope declares n.
C1_TypeIsOwnEntry ==
    BuiltUntyped => type(Heap, lastOp.ret) = OwnEntry(lastOp.scope, lastOp.name)

\* C1 amended: v is bound to (n, s) and v.type is what s.lookup(n) finds with
\* the default, recursive lookup.  It is s's own entry when s held n before
\* the call or no enclosing scope declared n; when only an enclosing scope
\* declared n (and not as a derived type still to be expanded), v.type is
\* that enclosing entry and s's own table gets no entry for n.
C1_TypeIsRecursiveLookup ==
    BuiltUntyped =>
        LET v == lastOp.ret
            s == lastOp.scope
            n == lastOp.name
        IN  /\ nodes[v].name = n /\ nodes[v].scope = s
            /\ type(Heap, v) # 0
            /\ type(Heap, v) = lookup(Heap, s, n, TRUE)
            /\ (lastOp.preOwn # 0 \/ lastOp.preAny = 0)
                  => type(Heap, v) = OwnEntry(s, n)
            /\ (lastOp.preOwn = 0 /\ lastOp.preAny # 0
                /\ types[lastOp.preAny].dtype # "DERIVED_TYPE")
                  => /\ type(Heap, v) = lastOp.preAny
                     /\ OwnEntry(s, n) = 0

\* a variable was built in a scope whose enclosing scope declares the name
C1_Witness ==
    /\ BuiltUntyped
    /\ lastOp.preOwn = 0 /\ lastOp.preAny # 0
    /\ OwnEntry(lastOp.scope, lastOp.name) = 0
    /\ type(Heap, lastOp.ret) = OwnEntry(ScopeParent(lastOp.scope), lastOp.name)

SameSymbol(n1, n2) ==
    /\ nodes[n1].name = nodes[n2].name
    /\ nodes[n1].scope = nodes[n2].scope

\* C2: two nodes with the same (name, scope) report the same type, and a
\* type written through one node is the type every node with that name and
\* scope reads afterwards.
C2_SingleSourceOfTruth ==
    /\ \A n1, n2 \in 1..Len(nodes) :
          SameSymbol(n1, n2) /\ scope(Heap, n1) # 0
             => type(Heap, n1) = type(Heap, n2)
    /\ (lastOp.op = "set_type" /\ lastOp.err = "")
          => \A m \in 1..Len(nodes) :
                SameSymbol(m, lastOp.node) => type(Heap, m) = lastOp.type

\* a type was written through one of two nodes of the same qualified symbol
C2_Witness ==
    /\ lastOp.op = "set_type" /\ lastOp.err = ""
    /\ Len(lastOp.name) > 1
    /\ \E m \in 1..Len(nodes) :
          /\ m # lastOp.node
          /\ SameSymbol(m, lastOp.node)
          /\ type(Heap, m) = lastOp.type

\* the last operation was a factory call (direct or through clone) that
\* returned a node
Built ==
    /\ lastOp.op \in {"Variable", "VariableWithParent", "clone"}
    /\ lastOp.err = ""

\* the variant the factory selects for a node's present dimensions and type
FactoryVariant(n) ==
    LET t == type(Heap, n)
        dims == IF nodes[n].variant = "Array" THEN nodes[n].dimensions ELSE NoDims
    IN  IF dims = NoDims /\ (t = 0 \/ types[t].shape \in {"None", "()"})
        THEN "Scalar" ELSE "Array"

\* C3 as stated: v.clone() without overrides is structurally equal to v in
\* every reachable state, also after the scope's entry or the dimensions of
\* v were changed.
C3_CloneEqualsOriginal ==
    (lastOp.op = "clone" /\ lastOp.err = "") => NodeEq(Heap, lastOp.ret, lastOp.node)

\* C3 amended: v.clone() has v's name, scope and parent, v's dimensions
\* wrapped in a subscript, and the variant the factory derives from v's
\* present dimensions and type; it is structurally equal to v exactly when v
\* already has that variant and v's dimensions are absent or a subscript.
C3_CloneRederivesVariant ==
    (lastOp.op = "clone" /\ lastOp.err = "") =>
        LET v == lastOp.node
            c == lastOp.ret
        IN  /\ c # v
            /\ nodes[c].name = nodes[v].name
            /\ nodes[c].scope = nodes[v].scope
            /\ nodes[c].parent = nodes[v].parent
            /\ nodes[c].dimensions = ArraySubscript(nodes[v].dimensions)
            /\ nodes[c].variant = FactoryVariant(v)
            /\ NodeEq(Heap, c, v) <=> /\ nodes[v].variant = FactoryVariant(v)
                                      /\ nodes[v].dimensions.kind # "tuple"

\* a node with a parent was cloned into an equal node
C3_Witness ==
    /\ lastOp.op = "clone" /\ lastOp.err = ""
    /\ nodes[lastOp.node].parent # 0
    /\ lastOp.ret # lastOp.node
    /\ NodeEq(Heap, lastOp.ret, lastOp.node)

\* the type the factory works with: the explicit one, else the scope's entry
GivenType == IF lastOp.hasType THEN lastOp.type ELSE lastOp.preAny

HasMembers(H, n) ==
    LET t == type(H, n)
    IN  /\ scope(H, n) # 0
        /\ t # 0
        /\ H.types[t].dtype = "DERIVED_TYPE"
        /\ H.types[t].variables # 0
        /\ H.dicts[H.types[t].variables] # <<>>

MemberMap(H, n) == H.types[type(H, n)].variables

SameTables(H1, H2) ==
    /\ H1.table = H2.table
    /\ H1.dicts = H2.dicts
    /\ H1.types = H2.types

\* C5: derived-type member expansion is idempotent.  In every reachable
\* state, for every variable of derived type on which the expansion succeeds,
\* running it a second time, directly or through clone(), leaves the member
\* maps, the type descriptors and the scope tables as the first run left them.
C5_ExpansionIdempotent ==
    \A n \in 1..Len(nodes) :
        LET H1 == instantiate_derived_type_variables(Heap, n, MaxDepth)
            H2 == instantiate_derived_type_variables(H1, n, MaxDepth)
            H3 == clone(H1, n, MaxDepth)
        IN  (H1.err = "" /\ HasMembers(H1, n))
               => /\ H2.err = "" /\ SameTables(H2, H1)
                  /\ H3.err = "" /\ SameTables(H3, H1)
                  /\ scope(H1, H1.dicts[MemberMap(H1, n)][1].v) = scope(H1, n)

\* the expansion was run again on an instance that already had its own map
C5_Witness ==
    /\ lastOp.op = "instantiate" /\ lastOp.err = ""
    /\ lastOp.scope # TypeDefScope
    /\ HasMembers(Heap, lastOp.node)
    /\ MemberMap(Heap, lastOp.node) > 1
    /\ type(Heap, lastOp.node) = lastOp.preAny
    /\ nodes[dicts[MemberMap(Heap, lastOp.node)][2].v].name = lastOp.name \o <<"y">>

\* the member map the type definition holds (types[3], the template)
TemplateMap == types[3].variables

IsPrefix(p, q) == Len(p) <= Len(q) /\ SubSeq(q, 1, Len(p)) = p

\* the last operation built or expanded a variable
ExpandingOps == {"Variable", "VariableWithParent", "clone", "instantiate"}

\* the step leaves every existing member map and type descriptor as it was,
\* and every table entry except those of the variable at hand and its members
MapsUntouched ==
    /\ \A d \in 1..Len(dicts) : dicts'[d] = dicts[d]
    /\ \A t \in 1..Len(types) : types'[t] = types[t]
    /\ \A s \in Scopes : \A i \in 1..Len(table[s]) :
          (s # lastOp'.scope \/ ~IsPrefix(lastOp'.name, table[s][i].name))
             => /\ Len(table'[s]) >= i
                /\ table'[s][i] = table[s][i]

\* the member map of the variable the last operation returned is held by no
\* other table entry and is not the template's
OwnsFreshMap ==
    LET v == lastOp.ret
        d == MemberMap(Heap, v)
    IN  /\ d # TemplateMap
        /\ \A s \in Scopes : \A i \in 1..Len(table[s]) :
              (s # nodes[v].scope \/ table[s][i].name # nodes[v].name)
                 => types[table[s][i].type].variables # d

ReturnedInstance ==
    /\ lastOp.op \in ExpandingOps
    /\ lastOp.err = ""
    /\ HasMembers(Heap, lastOp.ret)

\* C6 as stated: building instances of a derived type, in whatever scope,
\* leaves the template's member map and the entries of the type-definition
\* scope unchanged, and every instance gets a fresh member map distinct from
\* the template and from every other instance's map.
C6_EveryInstanceFresh ==
    [][lastOp'.op \in ExpandingOps
          => /\ MapsUntouched
             /\ (ReturnedInstance => OwnsFreshMap)']_vars

\* the members of the returned instance are bound to the instance's scope
MembersBoundHere ==
    LET v == lastOp.ret
        d == MemberMap(Heap, v)
    IN  \A i \in 1..Len(dicts[d]) : scope(Heap, dicts[d][i].v) = scope(Heap, v)

\* C6, the part that holds of the code: building or expanding a variable
\* never changes an existing member map, an existing type descriptor, or a
\* table entry other than those of the variable and its members.  The members of the returned instance are
\* bound to the instance's scope, and its map is either created by the call,
\* and then held by no other entry and not the template, or a map that
\* existed before and whose members were already bound to the instance's
\* scope: an instance built in the scope its type's members are bound to
\* (such as the definition scope) keeps the map it was given.
C6_TemplateNeverMutated ==
    [][lastOp'.op \in ExpandingOps
          => /\ MapsUntouched
             /\ ReturnedInstance'
                   => /\ MembersBoundHere'
                      /\ IF MemberMap(Heap, lastOp.ret)' > Len(dicts)
                         THEN OwnsFreshMap'
                         ELSE nodes[dicts[MemberMap(Heap, lastOp.ret)'][1].v].scope
                                 = lastOp'.scope]_vars

\* two instances in different scopes, each with its own map, the template
\* still as the definition left it
C6_Witness ==
    /\ ReturnedInstance
    /\ lastOp.op = "Variable"
    /\ OwnsFreshMap
    /\ MemberMap(Heap, lastOp.ret) = Len(dicts)
    /\ \E s \in Scopes \ {TypeDefScope, lastOp.scope} :
          LET t == OwnEntry(s, lastOp.name)
          IN  /\ t # 0
              /\ types[t].variables \notin {0, TemplateMap, Len(dicts)}
    /\ dicts[TemplateMap] = << [k |-> "x", v |-> 1], [k |-> "y", v |-> 2] >>

\* the last operation was a factory call with an explicit type
ExplicitType ==
    /\ lastOp.op \in {"Variable", "VariableWithParent", "clone"}
    /\ lastOp.hasType /\ lastOp.type # 0

\* a derived type t given to a variable of scope s has members bound elsewhere
BoundElsewhere(t, s) ==
    /\ t # 0
    /\ types[t].dtype = "DERIVED_TYPE"
    /\ types[t].variables # 0
    /\ dicts[types[t].variables] # <<>>
    /\ scope(Heap, dicts[types[t].variables][1].v) # s

\* C7 as stated: a construction for (n, s) with an explicit type T that is
\* not identically s's existing entry succeeds and overwrites s's entry with
\* a copy of T; the entry equals T and every node of (n, s) reports it.
C7_EntryEqualsLastType ==
    (ExplicitType /\ lastOp.type # lastOp.preOwn) =>
        LET e == OwnEntry(lastOp.scope, lastOp.name)
        IN  /\ lastOp.err = ""
            /\ e # 0 /\ e # lastOp.type /\ e # lastOp.preOwn
            /\ types[e] = types[lastOp.type]
            /\ \A m \in 1..Len(nodes) :
                  (nodes[m].name = lastOp.name /\ nodes[m].scope = lastOp.scope)
                     => type(Heap, m) = e

\* C7 amended: a construction for (n, s) with an explicit type T that is not
\* identically what s.lookup(n) returns (s's entry, else the nearest enclosing
\* scope's) puts a new descriptor into s's own table that copies T's dtype,
\* kind, shape and parent, and every node of (n, s) reports it from then on.
\* Its member map is T's, unless T is a derived type whose members are bound
\* to another scope: the factory then installs the expanded per-instance map,
\* and only that expansion can raise.  A T that is identically the looked-up
\* entry is not written.
C7_LastWriterWins ==
    ExplicitType =>
        LET e == OwnEntry(lastOp.scope, lastOp.name)
            T == lastOp.type
        IN  IF T # lastOp.preAny
            THEN /\ e # 0 /\ e # T /\ e # lastOp.preOwn
                 /\ types[e].dtype = types[T].dtype
                 /\ types[e].kind = types[T].kind
                 /\ types[e].shape = types[T].shape
                 /\ types[e].parent = types[T].parent
                 /\ \A m \in 1..Len(nodes) :
                       (nodes[m].name = lastOp.name /\ nodes[m].scope = lastOp.scope)
                          => type(Heap, m) = e
                 /\ IF BoundElsewhere(T, lastOp.scope)
                    THEN /\ types[e].variables \notin {0, types[T].variables}
                         /\ lastOp.err = ""
                               => Len(dicts[types[e].variables]) = Len(dicts[types[T].variables])
                    ELSE /\ types[e].variables = types[T].variables
                         /\ lastOp.err = ""
            ELSE \/ e = lastOp.preOwn
                 \/ BoundElsewhere(T, lastOp.scope)

\* a second explicit type replaced the first; a node built before reports it
C7_Witness ==
    /\ ExplicitType /\ lastOp.op = "Variable" /\ lastOp.err = ""
    /\ lastOp.preOwn # 0
    /\ lastOp.type # lastOp.preOwn
    /\ types[lastOp.preOwn].dtype = "INTEGER"
    /\ types[lastOp.type].dtype = "REAL"
    /\ types[OwnEntry(lastOp.scope, lastOp.name)].dtype = "REAL"
    /\ \E m \in 1..Len(nodes) :
          /\ m # lastOp.ret
          /\ nodes[m].name = lastOp.name /\ nodes[m].scope = lastOp.scope
          /\ type(Heap, m) = OwnEntry(lastOp.scope, lastOp.name)

\* the last operation was a direct factory call without a type
NoExplicitType ==
    /\ lastOp.op \in {"Variable", "VariableWithParent"}
    /\ ~lastOp.hasType \/ lastOp.type = 0

IsPlaceholder(t) == t # 0 /\ types[t] = SymbolType("DEFERRED")

\* C8 as stated: building a variable for a name without an entry in the scope
\* never fails, inserts a DEFERRED placeholder under the name and returns a
\* node that reports it; without an explicit type an existing entry is never
\* replaced.
C8_PlaceholderInserted ==
    NoExplicitType =>
        LET e == OwnEntry(lastOp.scope, lastOp.name)
        IN  IF lastOp.preOwn = 0
            THEN /\ lastOp.err = ""
                 /\ IsPlaceholder(e)
                 /\ type(Heap, lastOp.ret) = e
            ELSE e = lastOp.preOwn

\* C8 amended: building a variable for a name that neither the scope nor an
\* enclosing scope declares never fails, inserts a DEFERRED placeholder into
\* the scope's own table and returns a node that reports it.  If only an
\* enclosing scope declares the name, the factory called without type= inserts
\* nothing and the node reports the enclosing entry (type=None inserts the
\* placeholder).  Without an explicit type an existing own entry is never
\* replaced, except that a derived-type entry whose members are bound to
\* another scope is replaced by its expanded per-instance copy; only that
\* expansion can raise.
C8_DeferredPlaceholder ==
    NoExplicitType =>
        LET e == OwnEntry(lastOp.scope, lastOp.name)
            found == IF lastOp.hasType THEN lastOp.preOwn ELSE lastOp.preAny
        IN  /\ found = 0
               => /\ lastOp.err = ""
                  /\ IsPlaceholder(e)
                  /\ e # lastOp.preAny
                  /\ type(Heap, lastOp.ret) = e
            /\ (found # 0 /\ ~BoundElsewhere(found, lastOp.scope))
               => /\ lastOp.err = ""
                  /\ e = lastOp.preOwn
                  /\ type(Heap, lastOp.ret) = found
            /\ (found # 0 /\ BoundElsewhere(found, lastOp.scope))
               => /\ e \notin {0, lastOp.preOwn}
                  /\ types[e].dtype = "DERIVED_TYPE"

\* type=None was passed for a name the scope already declares
C8_Witness ==
    /\ NoExplicitType /\ lastOp.hasType /\ lastOp.err = ""
    /\ lastOp.preOwn # 0
    /\ ~IsPlaceholder(lastOp.preOwn)
    /\ OwnEntry(lastOp.scope, lastOp.name) = lastOp.preOwn
    /\ type(Heap, lastOp.ret) = lastOp.preOwn

\* C9: the factory called without name= or without scope= fails at once: it
\* raises, returns no node, and leaves every table, node, member map and type
\* descriptor as it was.
C9_MissingArgumentFails ==
    [][lastOp'.op = "VariableMissing"
          => /\ lastOp'.err = "KeyError"
             /\ lastOp'.ret = 0
             /\ table' = table
             /\ nodes' = nodes
             /\ dicts' = dicts
             /\ types' = types]_vars

\* a call without scope= has failed while variables exist in the scope
C9_Witness ==
    /\ lastOp.op = "VariableMissing"
    /\ lastOp.err = "KeyError"
    /\ lastOp.ret = 0
    /\ table[RoutineScope] # << >>
    /\ Len(nodes) > 2

\* C10: a node's reference to its scope is not owning.  Once the scope is
\* discarded, reading the node's scope gives None (0) and does not fail;
\* while the scope is alive the node reports that scope.
C10_DanglingScope ==
    \A n \in 1..Len(nodes) :
        /\ (lastOp.op = "discard" /\ nodes[n].scope = lastOp.scope)
              => scope(Heap, n) = 0
        /\ ~alive[nodes[n].scope] => scope(Heap, n) = 0
        /\ alive[nodes[n].scope] => scope(Heap, n) = nodes[n].scope

\* the scope of a variable built by the factory was discarded
C10_Witness ==
    /\ lastOp.op = "discard"
    /\ \E n \in 3..Len(nodes) :
          /\ nodes[n].scope = lastOp.scope
          /\ scope(Heap, n) = 0
    /\ \E m \in 1..Len(nodes) : scope(Heap, m) = nodes[m].scope

\* the parents of two nodes are both absent or structurally equal
SameParent(n1, n2) ==
    IF nodes[n1].parent = 0 \/ nodes[n2].parent = 0
    THEN nodes[n1].parent = nodes[n2].parent
    ELSE NodeEq(Heap, nodes[n1].parent, nodes[n2].parent)

\* C11: equality of Scalar/Array nodes is structural.  In every reachable
\* state two nodes are equal exactly when they have the same variant, name,
\* scope (as the node reports it), dimensions and parent: separately built
\* nodes that agree in these are equal whatever their identity, their type
\* and their initial value, and nodes that differ in one of them are not.
C11_StructuralEquality ==
    \A n1, n2 \in 1..Len(nodes) :
        NodeEq(Heap, n1, n2)
           <=> /\ nodes[n1].variant = nodes[n2].variant
               /\ nodes[n1].name = nodes[n2].name
               /\ scope(Heap, n1) = scope(Heap, n2)
               /\ nodes[n1].dimensions = nodes[n2].dimensions
               /\ SameParent(n1, n2)

\* two nodes built by separate factory calls are equal, and two Arrays of one
\* name and scope that differ in their dimensions only are not
C11_Witness ==
    /\ \E n1, n2 \in 3..Len(nodes) :
          /\ n1 # n2
          /\ NodeEq(Heap, n1, n2)
    /\ \E n3, n4 \in 3..Len(nodes) :
          /\ SameSymbol(n3, n4)
          /\ nodes[n3].variant = "Array" /\ nodes[n4].variant = "Array"
          /\ nodes[n3].dimensions # nodes[n4].dimensions
          /\ ~NodeEq(Heap, n3, n4)

\* the last operation built or expanded a variable whose type (given, or
\* found in the tables) is a derived type with members bound to another scope
JustExpanded ==
    /\ lastOp.op \in ExpandingOps
    /\ lastOp.err = ""
    /\ BoundElsewhere(GivenType, lastOp.scope)

\* C20: when the expansion of a derived-type instance obj returns, obj's
\* member map has the keys of the map it was expanded from, in the same
\* order, and every entry is a Scalar or Array bound to obj's scope, named
\* obj.name % basename of the corresponding member, whose type has obj as
\* its parent and is the entry of obj's scope table under that name.
C20_MembersRebound ==
    JustExpanded =>
        LET obj == lastOp.ret
            d == MemberMap(Heap, obj)
            tmpl == types[GivenType].variables
        IN  /\ d # tmpl
            /\ Len(dicts[d]) = Len(dicts[tmpl])
            /\ \A i \in 1..Len(dicts[d]) :
                  LET m == dicts[d][i].v
                      full == nodes[dicts[tmpl][i].v].name
                  IN  /\ dicts[d][i].k = dicts[tmpl][i].k
                      /\ nodes[m].variant \in {"Scalar", "Array"}
                      /\ nodes[m].scope = nodes[obj].scope
                      /\ nodes[m].name = nodes[obj].name \o <<full[Len(full)]>>
                      /\ OwnEntry(nodes[obj].scope, nodes[m].name) # 0
                      /\ type(Heap, m) = OwnEntry(nodes[obj].scope, nodes[m].name)
                      /\ types[type(Heap, m)].parent = obj

\* an instance was expanded from the map of another instance, whose members
\* carry qualified names
C20_Witness ==
    /\ JustExpanded
    /\ Len(nodes[dicts[types[GivenType].variables][1].v].name) > 1
    /\ Len(dicts[MemberMap(Heap, lastOp.ret)]) = 2
    /\ nodes[dicts[MemberMap(Heap, lastOp.ret)][2].v].variant = "Array"
    /\ nodes[dicts[MemberMap(Heap, lastOp.ret)][2].v].name = lastOp.name \o <<"y">>

\* ------------------------------------------------- metadata and the fixer
MaxReports == 2      \* reports handed to one run of the fixer

DataInputs == { [source |-> "None"], [source |-> "span"], [comment |-> "c"] }

ReportInputs == UNION {[1..n -> 1..Len(nodes)] : n \in 1..MaxReports}

FixDone(op, n) ==
    /\ Commit(Heap)
    /\ lastOp' = [NoOp EXCEPT !.op = op, !.node = n]
    /\ ops' = ops + 1
    /\ UNCHANGED <<ctors, lit>>

\* Variable(name='a', scope=s): the nodes the reports point at
BuildVariable ==
    /\ ops < MaxOps /\ ctors < MaxCtor
    /\ \E s \in Scopes :
        LET kw == Kwargs(<<"a">>, s, FALSE, 0, NoDims, 0, 0)
        IN  Done(Variable(Heap, kw, MaxDepth), "Variable", kw, 0)
    /\ ctors' = ctors + 1

\* node.update_metadata(data)
UpdateMetadata ==
    /\ ops < MaxOps
    /\ \E n \in 1..Len(nodes), data \in DataInputs :
        /\ metadata' = update_metadata(metadata, n, data)
        /\ FixDone("update_metadata", n)
    /\ UNCHANGED fix

\* Fortran90OperatorsRule.fix_subroutine(subroutine, rule_report, config);
\* the locations reported are nodes of the expression trees
FixSubroutine ==
    /\ ops < MaxOps
    /\ \E reports \in ReportInputs :
        LET F == fix_subroutine(Heap, [md |-> metadata, mapper |-> <<>>], reports, 1)
        IN  /\ metadata' = F.md
            /\ fix' = [reports |-> reports, mapper |-> F.mapper]
            /\ FixDone("fix_subroutine", 0)

FixNext ==
    \/ BuildVariable
    \/ UpdateMetadata
    \/ FixSubroutine

FixSpec == Init /\ [][FixNext]_vars

\* ------------------------------------------------- properties of LitSpec
\* C12: the reconstruction arguments rebuild the node.  For every node built
\* (the four literal classes, LiteralList, Cast, the ranges), calling its
\* class with its __getinitargs__() succeeds and gives a node that is
\* structurally equal to the original and has the same field values.
C12_RebuildsEqualNode ==
    lit.rebuilds > 0
       => /\ lit.res.err = ""
          /\ ExprEq(lit.res.node, lit.prev)
          /\ lit.res.node = lit.prev

\* the call gives an upper bound and nothing else
OnlyUpper ==
    /\ lit.op = "RangeIndex" /\ lit.rebuilds = 0
    /\ \/ ~lit.hasChildren /\ lit.children[1].k = "int"
       \/ /\ lit.hasChildren
          /\ Len(lit.children) \in {2, 3}
          /\ lit.children[1] = None /\ lit.children[2].k = "int"
          /\ Len(lit.children) = 3 => lit.children[3] = None

UpperGiven == IF lit.hasChildren THEN lit.children[2] ELSE lit.children[1]

\* C13: a RangeIndex built with only an upper bound collapses to the integer
\* literal of that bound: the construction succeeds and the result is
\* structurally equal to IntLiteral(upper).
C13_UpperOnlyCollapses ==
    OnlyUpper
       => /\ lit.res.err = ""
          /\ ExprEq(lit.res.node, IntLiteral(UpperGiven, NoKw).node)

\* the factory was called with a value alone
Classified ==
    /\ lit.op = "Literal" /\ lit.rebuilds = 0
    /\ lit.tag = "None" /\ ~lit.kw.hasKind

\* C14: without a type tag the factory classifies by the native kind of the
\* value: an integer gives an IntLiteral, a real a FloatLiteral, a string of
\* the boolean keywords (any letter case) a LogicLiteral that is true exactly
\* for 'true' and '.true.', and every other string a StringLiteral.
C14_NativeClassification ==
    Classified =>
        LET v == lit.value
            node == lit.res.node
        IN  /\ v.k = "int"
               => lit.res.err = "" /\ node.cls = "IntLiteral" /\ node.value = v
            /\ v.k = "float"
               => lit.res.err = "" /\ node.cls = "FloatLiteral"
            /\ (v.k = "str" /\ lower(v.s) \in LogicWords)
               => /\ lit.res.err = "" /\ node.cls = "LogicLiteral"
                  /\ node.value = BoolVal(lower(v.s) \in TrueWords)
            /\ (v.k = "str" /\ lower(v.s) \notin LogicWords)
               => lit.res.err = "" /\ node.cls = "StringLiteral"

\* the factory was called with the text of an integer numeral
NumeralGiven ==
    /\ lit.op = "Literal" /\ lit.rebuilds = 0
    /\ lit.value.k = "str" /\ IsNumeral(lit.value.s)

\* C15 as stated: the factory applied to the text of an integer numeral, with
\* no type tag, returns the integer literal of that value.
C15_NumeralTextIsInt ==
    (NumeralGiven /\ Classified)
       => /\ lit.res.err = ""
          /\ ExprEq(lit.res.node, IntLiteral(IntVal(DigitsVal(lit.value.s)), NoKw).node)

\* C15 amended: text is classified as text.  With no type tag the factory
\* returns for the text of an integer numeral the StringLiteral of that text,
\* which is not equal to the integer literal; it returns the integer literal
\* of the value when the text comes with the type tag INTEGER, and when the
\* value is a native integer.
C15_NumeralTextIsString ==
    /\ (NumeralGiven /\ Classified)
          => /\ lit.res.err = ""
             /\ lit.res.node.cls = "StringLiteral"
             /\ lit.res.node.value = lit.value
             /\ ~ExprEq(lit.res.node, IntLiteral(IntVal(DigitsVal(lit.value.s)), NoKw).node)
    /\ (NumeralGiven /\ lit.tag = "INTEGER")
          => /\ lit.res.err = ""
             /\ ExprEq(lit.res.node, IntLiteral(IntVal(DigitsVal(lit.value.s)), lit.kw).node)
    /\ (Classified /\ lit.value.k = "int")
          => /\ lit.res.err = ""
             /\ ExprEq(lit.res.node, IntLiteral(lit.value, NoKw).node)

\* Literal("5") returned StringLiteral("5")
C15_Witness ==
    /\ NumeralGiven /\ Classified
    /\ lit.value.s = <<"5">>
    /\ lit.res.err = ""
    /\ lit.res.node = Node("StringLiteral", Str(<<"5">>), None, <<>>)

\* C16: StringLiteral strips exactly one matching pair of quotes.  For every
\* string whose first and last characters are the same quote character the
\* stored value is the string without its first and last character; for every
\* other string it is the string unchanged; the factory applied to a quoted
\* text gives the StringLiteral of the text between the quotes.
C16_StripsOnePair ==
    (lit.rebuilds = 0 /\ lit.value.k = "str"
       /\ (lit.op = "StringLiteral" \/ (Classified /\ lower(lit.value.s) \notin LogicWords)))
       => LET s == lit.value.s
              quoted == s # <<>> /\ s[1] = s[Len(s)] /\ s[1] \in Quotes
          IN  /\ lit.res.err = ""
              /\ lit.res.node.cls = "StringLiteral"
              /\ lit.res.node.value = Str(IF quoted THEN SubSeq(s, 2, Len(s) - 1) ELSE s)

\* the node was first built as a FloatLiteral from a text
FloatFromText ==
    /\ lit.value.k = "str"
    /\ lit.op = "FloatLiteral" \/ (lit.op = "Literal" /\ lit.tag = "REAL")

\* C17: a FloatLiteral built from a text stores that text character for
\* character, and every rebuild of the node from its stored value, however
\* often repeated, stores the same text.
C17_TextPreserved ==
    FloatFromText
       => /\ lit.res.err = ""
          /\ lit.res.node.cls = "FloatLiteral"
          /\ lit.res.node.value = lit.value
          /\ lit.first.value = lit.value
          /\ lit.rebuilds > 0 => lit.prev.value = lit.value

\* "1.00" was stored and survived two rebuilds
C17_Witness ==
    /\ FloatFromText
    /\ lit.value.s = <<"1", ".", "0", "0">>
    /\ lit.rebuilds >= 2
    /\ lit.res.node.value.s = <<"1", ".", "0", "0">>

\* the value is classified neither by the tag nor by its native kind
Unclassifiable ==
    /\ lit.op = "Literal" /\ lit.rebuilds = 0
    /\ \/ lit.tag \notin {"None", "INTEGER", "REAL", "LOGICAL", "CHARACTER"}
       \/ lit.tag = "None" /\ lit.value.k \notin {"int", "bool", "float", "str"}

Reported == {fix.reports[i] : i \in 1..Len(fix.reports)}

\* the step leaves the nodes, their reconstruction arguments and equality,
\* the type descriptors, the member maps and every scope table as they were
OnlyMetadataChanges ==
    /\ nodes' = nodes
    /\ table' = table
    /\ types' = types
    /\ dicts' = dicts
    /\ alive' = alive
    /\ \A n \in 1..Len(nodes) : getinitargs(Heap, n)' = getinitargs(Heap, n)
    /\ \A n1, n2 \in 1..Len(nodes) : NodeEq(Heap, n1, n2)' = NodeEq(Heap, n1, n2)

\* the source of every reported node is absent afterwards, its other
\* metadata and the metadata of every other node are as before
SourceInvalidated ==
    \A n \in 1..Len(nodes) :
        LET old == get_metadata(metadata, n)
            new == get_metadata(metadata', n)
        IN  IF n \in Reported'
            THEN /\ new.source = "None"
                 /\ DOMAIN new = DOMAIN old
                 /\ \A k \in DOMAIN old \ {"source"} : new[k] = old[k]
            ELSE new = old

\* the last report whose location is structurally equal to node n
LastEqualReport(n) ==
    LET I == {i \in 1..Len(fix.reports) : NodeEq(Heap, fix.reports[i], n)}
    IN  fix.reports[CHOOSE i \in I : \A j \in I : j <= i]

\* C19 as stated: the fixer makes the source of every reported node absent
\* and changes nothing else (variant, reconstruction arguments, structural
\* equality, other metadata, scope tables), and the mapping it returns takes
\* each reported node to that same node.
C19_MapsNodeToItself ==
    [][lastOp'.op = "fix_subroutine"
          => /\ OnlyMetadataChanges
             /\ SourceInvalidated
             /\ \A n \in Reported' : MapperGet(Heap, fix.mapper, n)' = n]_vars

\* C19 amended: the fixer makes the source of every reported node absent and
\* changes nothing else, and so does update_metadata for the one node it is
\* called on.  The mapping the fixer returns is keyed by structural equality:
\* it takes each reported node to a reported node that is structurally equal
\* to it and whose source is absent, namely to the node itself unless an
\* equal node was reported later, and then to the last such node.
C19_FixInvalidatesSource ==
    [][/\ lastOp'.op = "fix_subroutine"
          => /\ OnlyMetadataChanges
             /\ SourceInvalidated
             /\ \A n \in Reported' :
                   LET v == MapperGet(Heap, fix.mapper, n)'
                   IN  /\ v \in Reported'
                       /\ NodeEq(Heap', v, n)
                       /\ source(metadata', v) = "None"
                       /\ v = LastEqualReport(n)'
                       /\ (\A m \in Reported' : NodeEq(Heap, m, n)' => m = n) => v = n
       /\ lastOp'.op = "update_metadata"
          => /\ OnlyMetadataChanges
             /\ \A n \in 1..Len(nodes) :
                   n # lastOp'.node => get_metadata(metadata', n) = get_metadata(metadata, n)]_vars

\* the fixer ran on two reports, one for a node that carried a source span
\* and a comment: the span is gone, the comment is kept
C19_Witness ==
    /\ lastOp.op = "fix_subroutine"
    /\ Len(fix.reports) = 2
    /\ \E n \in Reported :
          /\ get_metadata(metadata, n) = [source |-> "None", comment |-> "c"]
          /\ MapperGet(Heap, fix.mapper, n) = n
    /\ \E n \in Reported : n > 2

\* ------------------------------------------------- frame of the constructor
\* A program unit nested in a module that declares the name: the module's
\* table holds the declaration of a (types[4]) before any node is built, so
\* that a node of the routine can inherit its type from the module.
InitDeclared ==
    /\ types = << [SymbolType("REAL") EXCEPT !.kind = "jprb"],
                  [SymbolType("INTEGER") EXCEPT !.shape = "(n)"],
                  [SymbolType("DERIVED_TYPE") EXCEPT !.variables = 1],
                  [SymbolType("INTEGER") EXCEPT !.shape = "()"],
                  [SymbolType("REAL") EXCEPT !.kind = "jprb", !.shape = "(n)"] >>
    /\ dicts = << << [k |-> "x", v |-> 1], [k |-> "y", v |-> 2] >> >>
    /\ nodes = << [variant |-> "Scalar", name |-> <<"x">>, scope |-> TypeDefScope,
                   dimensions |-> NoDims, parent |-> 0, initial |-> 0],
                  [variant |-> "Array", name |-> <<"y">>, scope |-> TypeDefScope,
                   dimensions |-> NoDims, parent |-> 0, initial |-> 0] >>
    /\ table = [s \in Scopes |->
                  CASE s = TypeDefScope ->
                         << [name |-> <<"x">>, type |-> 1], [name |-> <<"y">>, type |-> 2] >>
                    [] s = ModuleScope -> << [name |-> <<"a">>, type |-> 4] >>
                    [] OTHER -> << >>]
    /\ alive = [s \in Scopes |-> TRUE]
    /\ ops = 0
    /\ ctors = 0
    /\ lastOp = NoOp
    /\ lit = NoLit
    /\ metadata = << [source |-> "span"], [source |-> "span"] >>
    /\ fix = NoFix

DeclSpec == InitDeclared /\ [][Next]_vars
\* the names a caller can construct a node for: those in use
NamesInUse == Names \cup {nodes[n].name : n \in 1..Len(nodes)}

\* Scalar(name, s, type=T) and Array(name, s, type=T, dimensions=d) with T
\* identically what s.lookup(name) returns leave every table as it was
IdenticalTypeNotWritten ==
    \A name \in NamesInUse, s \in Scopes, dimensions \in DimInputs :
        LET t == lookup(Heap, s, name, DefaultRecursive)
            kw == Kwargs(name, s, TRUE, t, dimensions, 0, 0)
        IN  (alive[s] /\ t # 0) =>
                /\ Scalar(Heap, kw).table = table
                /\ Array(Heap, kw, dimensions).table = table

\* the step is v.clone() for a v whose type the factory does not expand
ClonesUnexpandable ==
    /\ lastOp'.op = "clone"
    /\ ~NeedsExpansion(Heap, lastOp'.node)

PlaceholderEntered(v) ==
    /\ types' = Append(types, SymbolType("DEFERRED"))
    /\ table' = [table EXCEPT ![nodes[v].scope] =
                    Append(@, [name |-> nodes[v].name, type |-> Len(types) + 1])]

C22_FactoryTerminates ==
    lastOp.op \in {"Variable", "VariableWithParent", "clone", "instantiate"}
        => lastOp.err # "RecursionError"

\* ------------------------------------------------------------------ ranges
\* a range class was called with a tuple of children
ChildrenGiven ==
    /\ lit.op \in RangeClasses /\ lit.rebuilds = 0
    /\ lit.hasChildren

\* C23: Range, RangeIndex and LoopRange accept exactly two or three
\* children, each of which may be absent: (lower, upper) becomes (lower,
\* upper, None) and is structurally equal to the range built from that
\* triple, three children are kept, and a tuple of any other length is
\* rejected and no node is returned.
C23_TwoOrThreeChildren ==
    ChildrenGiven =>
        LET c == lit.children
            triple == IF Len(c) = 2 THEN Append(c, None) ELSE c
        IN  IF Len(c) \in {2, 3}
            THEN /\ lit.res.err = ""
                 /\ lit.res.node.cls = lit.op
                 /\ lit.res.node.children = triple
                 /\ Range(lit.op, TRUE, triple).err = ""
                 /\ ExprEq(lit.res.node, Range(lit.op, TRUE, triple).node)
            ELSE /\ lit.res.err # ""
                 /\ lit.res.node = NoNode

\* a subscript range was built from an absent lower and an absent upper bound
C23_Witness ==
    /\ ChildrenGiven
    /\ lit.op = "RangeIndex"
    /\ lit.children = <<None, None>>
    /\ lit.res.err = ""
    /\ lit.res.node.children = <<None, None, None>>

====
